---- MODULE Spec2Model ----
(***************************************************************************)
(* The editor's scene-graph data provider (EditorSceneWrapper in           *)
(* editor/src/world/graph/mod.rs) over a generation-checked node pool,     *)
(* the command sender it submits to, and the command executor that is the  *)
(* only mutator of the graph.                                              *)
(*                                                                         *)
(* A handle is a pair <<index, generation>>; NONE is the null handle.      *)
(* The pool is an array of records; a record is "vacant" (never spawned),  *)
(* "live" (payload present) or "reserved" (payload taken out with a        *)
(* ticket, as take_reserve_sub_graph leaves it).  A reserved record keeps  *)
(* the node's fields in place: they stand for the node carried inside the  *)
(* SubGraph value, and no read query can see them.                         *)
(*                                                                         *)
(* The module also holds the range editor widget of rg3d-ui/src/range.rs   *)
(* with the user interface's message queue; it shares nothing with the     *)
(* scene and has specifications of its own.                                *)
(***************************************************************************)
EXTENDS Integers, Sequences, FiniteSets, TLC

\* ---------------------------------------------------------------- bounds
MaxNodes == 3
MaxQueue == 2
MaxSelLen == 2
MaxUndo == 1
MaxModelSize == 1

MaxFoldLen == 3
MaxVal == 2
MaxSent == 2
MaxUiQueue == 8

VARIABLES pool, selection, queue, undo_stack, history_limit, fault, last,
          caps, answer,
          value, start_field, end_field, ui_queue, sent_count

\* The scene, its selection and the command layer.
scene_vars == <<pool, selection, queue, undo_stack, history_limit, fault, last>>

\* What the nodes are (their capability predicates) and the answer of the
\* last icon_of or validate query.
read_vars == <<caps, answer>>

\* The range editor (rg3d-ui/src/range.rs): its stored value, the values
\* its two numeric fields show, the user interface's message queue and the
\* number of messages sent to it from outside.
range_vars == <<value, start_field, end_field, ui_queue, sent_count>>

vars == <<pool, selection, queue, undo_stack, history_limit, fault, last,
          caps, answer, value, start_field, end_field, ui_queue, sent_count>>

\* --------------------------------------------------------------- handles
NONE == <<0, 0>>

ROOT == <<1, 1>>

Indices == 1..MaxNodes

\* The generation a record's first spawn gives it, in this scene: the second
\* record was used and freed before the scene's node took it.
FirstGen(i) == IF i = 2 THEN 2 ELSE 1

\* Every handle a caller can hold: null, current, stale (the second record's
\* first generation), out of range (index MaxNodes + 1).
Handles ==
    {NONE} \cup {h \in (1..(MaxNodes + 1)) \X (1..2) : h[2] <= FirstGen(h[1])}

is_some(h) == h # NONE

\* Option values: None is the empty sequence, Some(x) a one-element one.
None == <<>>

Some(x) == <<x>>

\* ------------------------------------------------------------------ pool
VacantRecord == [state |-> "vacant", gen |-> 0, parent |-> NONE,
                 children |-> <<>>, resource |-> FALSE]

LiveIn(g, h) ==
    /\ h[1] \in Indices
    /\ g[h[1]].state = "live"
    /\ g[h[1]].gen = h[2]

TryGetIn(g, h) == IF LiveIn(g, h) THEN Some(g[h[1]]) ELSE None

\* Handles of the live nodes of g.
LiveHandles(g) == {<<i, g[i].gen>> : i \in {j \in Indices : g[j].state = "live"}}

RECURSIVE SeqRemove(_, _)
SeqRemove(s, x) ==
    IF s = <<>> THEN <<>>
    ELSE IF Head(s) = x THEN SeqRemove(Tail(s), x)
    ELSE <<Head(s)>> \o SeqRemove(Tail(s), x)

SeqContains(s, x) == \E i \in 1..Len(s) : s[i] = x

SeqToSet(s) == {s[i] : i \in 1..Len(s)}

\* Graph::isolate_node: drop the child from its parent's child list and
\* null its parent handle.
IsolateNode(g, child) ==
    LET par == g[child[1]].parent
        g1 == IF par # NONE /\ par[1] \in Indices
              THEN [g EXCEPT ![par[1]].children = SeqRemove(@, child)]
              ELSE g
    IN [g1 EXCEPT ![child[1]].parent = NONE]

\* Graph::link_nodes: isolate the child, then attach it at the end of the
\* new parent's child list.  No cycle check is made here.
LinkNodesIn(g, child, parent) ==
    LET g1 == IsolateNode(g, child)
    IN [g1 EXCEPT ![child[1]].parent = parent,
                  ![parent[1]].children = Append(@, child)]

\* Sub-tree of h in g, h first (live or reserved records alike).
RECURSIVE SubTree(_, _, _)
SubTree(g, h, fuel) ==
    IF fuel = 0 THEN {h}
    ELSE {h} \cup UNION {SubTree(g, c, fuel - 1) : c \in SeqToSet(g[h[1]].children)}

\* Graph::take_reserve_sub_graph: take the whole sub-tree of root out of the
\* graph, keeping its records reserved; root is isolated from its parent,
\* which the returned SubGraph remembers.
TakeReserveSubGraph(g, root) ==
    LET nodes == SubTree(g, root, MaxNodes)
        par == g[root[1]].parent
        g1 == IsolateNode(g, root)
    IN [g |-> [i \in Indices |->
                 IF \E h \in nodes : h[1] = i
                 THEN [g1[i] EXCEPT !.state = "reserved"]
                 ELSE g1[i]],
        root |-> root, nodes |-> nodes \ {root}, parent |-> par]

\* Graph::put_sub_graph_back: the reserved records become live again and the
\* root is linked where it was taken from.
PutSubGraphBack(g, root, nodes, parent) ==
    LET g1 == [i \in Indices |->
                 IF \E h \in nodes \cup {root} : h[1] = i
                 THEN [g[i] EXCEPT !.state = "live"]
                 ELSE g[i]]
    IN LinkNodesIn(g1, root, parent)

\* The vacant records, lowest index first.
VacantIndices(g) == {i \in Indices : g[i].state = "vacant"}

RECURSIVE SpawnChain(_, _, _, _)
\* Spawn the nodes of a model of the given size as a chain below parent:
\* each spawn takes the lowest vacant record and raises its generation.
SpawnChain(g, parent, size, first) ==
    IF size = 0 THEN [g |-> g, instance |-> first]
    ELSE LET i == CHOOSE j \in VacantIndices(g) :
                      \A k \in VacantIndices(g) : j <= k
             h == <<i, IF g[i].gen = 0 THEN FirstGen(i) ELSE g[i].gen + 1>>
             g1 == [g EXCEPT ![i] = [state |-> "live", gen |-> h[2],
                                     parent |-> NONE, children |-> <<>>,
                                     resource |-> TRUE]]
             g2 == LinkNodesIn(g1, h, parent)
         IN SpawnChain(g2, h, size - 1, IF first = NONE THEN h ELSE first)

\* Model::instantiate: a copy of the model's nodes is added to the graph,
\* its root below the graph's root; the instance root's handle is returned.
Instantiate(g, size) == SpawnChain(g, ROOT, size, NONE)

\* -------------------------------------------------------------- selection
SelNone == [tag |-> "None", nodes |-> <<>>]

SelOther == [tag |-> "Other", nodes |-> <<>>]

SelGraph(nodes) == [tag |-> "Graph", nodes |-> nodes]

\* GraphSelection::single_or_empty
single_or_empty(h) == <<h>>

\* GraphSelection::insert_or_exclude
insert_or_exclude(nodes, h) ==
    IF SeqContains(nodes, h) THEN SeqRemove(nodes, h) ELSE Append(nodes, h)

\* Selection's equality: same variant, and for graph selections the same
\* set of handles whatever their order.
SelEq(a, b) ==
    /\ a.tag = b.tag
    /\ a.tag = "Graph" => SeqToSet(a.nodes) = SeqToSet(b.nodes)

\* --------------------------------------------------------------- commands
LinkNodesCommand(child, parent) ==
    [k |-> "Link", child |-> child, parent |-> parent, nodes |-> {},
     new |-> SelNone, old |-> SelNone]

AddModelCommand(sub) ==
    [k |-> "AddModel", child |-> sub.root, parent |-> sub.parent,
     nodes |-> sub.nodes, new |-> SelNone, old |-> SelNone]

ChangeSelectionCommand(new, old) ==
    [k |-> "ChangeSelection", child |-> NONE, parent |-> NONE, nodes |-> {},
     new |-> new, old |-> old]

\* What the sender carries: one command, a command group, or an undo request.
SingleIntent(c) == [type |-> "Single", cmds |-> <<c>>]

CommandGroup(cmds) == [type |-> "Group", cmds |-> cmds]

UndoIntent == [type |-> "Undo", cmds |-> <<>>]

\* --------------------------------------------------------------- executor
\* A scene state the executor works on: the pool, the selection, whether a
\* command failed, and the executed commands (each holding what reverts it).
SceneState(g, sel) == [g |-> g, sel |-> sel, ok |-> TRUE, done |-> <<>>]

\* Command::execute.  A link command remembers the child's old parent in
\* place of the new one, so that executing it again reverts it.
ExecCommand(c, st) ==
    IF ~st.ok THEN st
    ELSE IF c.k = "Link" THEN
        IF LiveIn(st.g, c.child) /\ LiveIn(st.g, c.parent)
        THEN [st EXCEPT !.g = LinkNodesIn(st.g, c.child, c.parent),
                        !.done = Append(@, [c EXCEPT !.parent =
                                              st.g[c.child[1]].parent])]
        ELSE [st EXCEPT !.ok = FALSE]
    ELSE IF c.k = "AddModel" THEN
        IF LiveIn(st.g, c.parent)
        THEN [st EXCEPT !.g = PutSubGraphBack(st.g, c.child, c.nodes, c.parent),
                        !.done = Append(@, c)]
        ELSE [st EXCEPT !.ok = FALSE]
    ELSE [st EXCEPT !.sel = c.new, !.done = Append(@, c)]

\* Command::revert, on a command as ExecCommand recorded it.
RevertCommand(c, st) ==
    IF ~st.ok THEN st
    ELSE IF c.k = "Link" THEN
        IF LiveIn(st.g, c.child) /\ LiveIn(st.g, c.parent)
        THEN [st EXCEPT !.g = LinkNodesIn(st.g, c.child, c.parent)]
        ELSE [st EXCEPT !.ok = FALSE]
    ELSE IF c.k = "AddModel" THEN
        IF LiveIn(st.g, c.child)
        THEN [st EXCEPT !.g = TakeReserveSubGraph(st.g, c.child).g]
        ELSE [st EXCEPT !.ok = FALSE]
    ELSE [st EXCEPT !.sel = c.old]

RECURSIVE ExecAll(_, _)
\* CommandGroup::execute: the members in their listed order.
ExecAll(cmds, st) ==
    IF cmds = <<>> THEN st
    ELSE ExecAll(Tail(cmds), ExecCommand(Head(cmds), st))

RECURSIVE RevertAll(_, _)
\* CommandGroup::revert: the members in reverse order.
RevertAll(cmds, st) ==
    IF cmds = <<>> THEN st
    ELSE RevertAll(SubSeq(cmds, 1, Len(cmds) - 1),
                   RevertCommand(cmds[Len(cmds)], st))

\* The undo stack keeps the history_limit most recent entries.
PushUndo(stack, e) ==
    LET s == Append(stack, e)
    IN IF Len(s) > history_limit THEN Tail(s) ELSE s

\* ----------------------------------------------------------- read queries
\* self.scene.graph.try_get(node.into())
try_get(h) == TryGetIn(pool, h)

root_node == ROOT

\* children_of with the node indexed by its record alone, liveness unchecked.
children_of_unchecked(h) ==
    IF h[1] \in Indices THEN pool[h[1]].children ELSE <<>>

children_of(h) ==
    IF try_get(h) # None THEN try_get(h)[1].children ELSE <<>>

child_count_of(h) ==
    IF try_get(h) # None THEN Len(try_get(h)[1].children) ELSE 0

is_node_has_child(h, c) ==
    IF try_get(h) # None THEN SeqContains(try_get(h)[1].children, c) ELSE FALSE

parent_of(h) ==
    IF try_get(h) # None THEN try_get(h)[1].parent ELSE NONE

\* A node's name is a function of its record; the record's index stands for it.
name_of(h) ==
    IF try_get(h) # None THEN Some(h[1]) ELSE None

is_valid_handle(h) == LiveIn(pool, h)

is_instance(h) ==
    IF try_get(h) # None THEN try_get(h)[1].resource ELSE FALSE

selection_query ==
    IF selection.tag = "Graph" THEN selection.nodes ELSE <<>>

\* ------------------------------------------------------ request_reparent
\* The gate without "selection.nodes.contains(&child)".
ReparentGateAnyChild(child) == selection.tag = "Graph"

\* if let Selection::Graph(ref selection) = self.selection
\*     if selection.nodes.contains(&child)
ReparentGate(child) ==
    /\ selection.tag = "Graph"
    /\ SeqContains(selection.nodes, child)

RECURSIVE CycleWalk(_, _, _, _)
\* The loop "while p.is_some()" for one selected node: "attach" when the
\* walk reaches the null handle, "exclude" when it meets node_handle,
\* "panic" when graph[p] indexes a handle that is not live, "hang" when the
\* parent links never end (after MaxNodes live records one of them repeats).
CycleWalk(g, node_handle, p, fuel) ==
    IF ~is_some(p) THEN "attach"
    ELSE IF p = node_handle THEN "exclude"
    ELSE IF ~LiveIn(g, p) THEN "panic"
    ELSE IF fuel = 0 THEN "hang"
    ELSE CycleWalk(g, node_handle, g[p[1]].parent, fuel - 1)

AttachOutcome(node_handle, parent) ==
    CycleWalk(pool, node_handle, parent, MaxNodes)

RECURSIVE ReparentCommands(_, _)
\* The commands vector the loop over selection.nodes builds.
ReparentCommands(nodes, parent) ==
    IF nodes = <<>> THEN <<>>
    ELSE (IF AttachOutcome(Head(nodes), parent) = "attach"
          THEN <<LinkNodesCommand(Head(nodes), parent)>>
          ELSE <<>>) \o ReparentCommands(Tail(nodes), parent)

RECURSIVE ReparentFault(_, _)
\* How the loop over selection.nodes ends: "none" when every walk ends, or
\* the first walk that does not.
ReparentFault(nodes, parent) ==
    IF nodes = <<>> THEN "none"
    ELSE IF AttachOutcome(Head(nodes), parent) \in {"panic", "hang"}
         THEN AttachOutcome(Head(nodes), parent)
         ELSE ReparentFault(Tail(nodes), parent)

\* Every link command sent on its own instead of in one group.
SubmitReparentSeparately(commands) ==
    [i \in 1..Len(commands) |-> SingleIntent(commands[i])]

\* if !commands.is_empty() { self.sender.do_scene_command(CommandGroup::from(commands)) }
SubmitReparent(commands) ==
    IF commands # <<>> THEN <<CommandGroup(commands)>> ELSE <<>>

Note(op, tag) == [op |-> op, tag |-> tag]

OnChangeHierarchyRequest(child, parent) ==
    /\ fault = "none"
    /\ UNCHANGED <<pool, selection, undo_stack, history_limit>>
    /\ UNCHANGED <<read_vars, range_vars>>
    /\ IF ReparentGate(child)
       THEN LET f == ReparentFault(selection.nodes, parent)
                sent == SubmitReparent(ReparentCommands(selection.nodes, parent))
            IN IF f # "none"
               THEN /\ fault' = f
                    /\ queue' = queue
                    /\ last' = Note("reparent", f)
               ELSE /\ Len(queue) + Len(sent) <= MaxQueue
                    /\ fault' = fault
                    /\ queue' = queue \o sent
                    /\ last' = Note("reparent",
                                    IF sent = <<>> THEN "empty" ELSE "submitted")
       ELSE /\ UNCHANGED <<queue, fault>>
            /\ last' = Note("reparent", "gated")

\* ---------------------------------------------------------------- icon_of
\* The capability predicates icon_of asks a node.
Caps == {"point_light", "directional_light", "spot_light", "joint", "joint2d",
         "rigid_body", "rigid_body2d", "collider", "collider2d", "sound"}

\* load_image on built-in image bytes: the image of that name.
load_image(name) == Some(name)

\* The if / else-if chain with the joint test first.
icon_of_node_joint_first(c) ==
    IF c \cap {"joint", "joint2d"} # {} THEN load_image("joint.png")
    ELSE IF c \cap {"point_light", "directional_light", "spot_light"} # {}
         THEN load_image("light.png")
    ELSE IF c \cap {"rigid_body", "rigid_body2d"} # {}
         THEN load_image("rigid_body.png")
    ELSE IF c \cap {"collider", "collider2d"} # {} THEN load_image("collider.png")
    ELSE IF "sound" \in c THEN load_image("sound_source.png")
    ELSE load_image("cube.png")

\* The if / else-if chain of icon_of on a node whose predicates are c.
icon_of_node(c) ==
    IF c \cap {"point_light", "directional_light", "spot_light"} # {}
    THEN load_image("light.png")
    ELSE IF c \cap {"joint", "joint2d"} # {} THEN load_image("joint.png")
    ELSE IF c \cap {"rigid_body", "rigid_body2d"} # {}
         THEN load_image("rigid_body.png")
    ELSE IF c \cap {"collider", "collider2d"} # {} THEN load_image("collider.png")
    ELSE IF "sound" \in c THEN load_image("sound_source.png")
    ELSE load_image("cube.png")

\* The answer of a read query as the caller gets it.
NoAnswer == [query |-> "none", handle |-> NONE, icon |-> None, entries |-> <<>>]

IconAnswer(h, icon) ==
    [query |-> "icon_of", handle |-> h, icon |-> icon, entries |-> <<>>]

ValidateAnswer(entries) ==
    [query |-> "validate", handle |-> NONE, icon |-> None, entries |-> entries]

\* let node = self.scene.graph.try_get(node.into()).unwrap(): the unwrap
\* panics when try_get gives None.
IconOf(h) ==
    /\ fault = "none"
    /\ UNCHANGED <<pool, selection, queue, undo_stack, history_limit>>
    /\ UNCHANGED <<caps, range_vars>>
    /\ IF try_get(h) = None
       THEN /\ fault' = "panic"
            /\ answer' = answer
            /\ last' = Note("icon_of", "panic")
       ELSE /\ fault' = fault
            /\ answer' = IconAnswer(h, icon_of_node(caps[h[1]]))
            /\ last' = Note("icon_of", "answered")

\* --------------------------------------------------------------- validate
\* Graph::pair_iter: the records that hold a node, in the pool's order, each
\* with its handle.
pair_iter(g) ==
    LET RECURSIVE From(_)
        From(i) ==
            IF i > MaxNodes THEN <<>>
            ELSE (IF g[i].state = "live" THEN <<(<<i, g[i].gen>>)>> ELSE <<>>)
                   \o From(i + 1)
    IN From(1)

\* Node::validate: a collider must be a direct child of a rigid body.
node_validate(g, h) ==
    IF /\ caps[h[1]] \cap {"collider", "collider2d"} # {}
       /\ \/ ~LiveIn(g, g[h[1]].parent)
          \/ caps[g[h[1]].parent[1]] \cap {"rigid_body", "rigid_body2d"} = {}
    THEN "Err"
    ELSE "Ok"

\* The map over every record the pool ever spawned, a node in it or not.
validate_every_record ==
    LET spawned == SelectSeq([i \in 1..MaxNodes |-> <<i, pool[i].gen>>],
                             LAMBDA h : pool[h[1]].state # "vacant")
    IN [i \in 1..Len(spawned) |-> <<spawned[i], node_validate(pool, spawned[i])>>]

\* pair_iter().map(|(handle, node)| (handle.into(), node.validate(scene))).collect()
validate ==
    [i \in 1..Len(pair_iter(pool)) |->
        <<pair_iter(pool)[i], node_validate(pool, pair_iter(pool)[i])>>]

Validate ==
    /\ fault = "none"
    /\ UNCHANGED <<pool, selection, queue, undo_stack, history_limit, fault>>
    /\ UNCHANGED <<caps, range_vars>>
    /\ answer' = ValidateAnswer(validate)
    /\ last' = Note("validate", "answered")

\* ---------------------------------------------------- request_asset_drop
\* The paths a drop can carry, one per way the resolution can end.
Paths == {"outside_registry", "not_a_model", "load_error", "model"}

\* make_relative_path(path) is Ok
make_relative_path_ok(path) == path # "outside_registry"

\* resource_manager.try_request::<Model>(relative_path) is Some
try_request_some(path) == path # "not_a_model"

\* block_on(m).ok() is Some
load_ok(path) == path = "model"

\* The resolution with the outcome of the awaited load ignored.
AssetResolvesUnawaited(path) ==
    /\ make_relative_path_ok(path)
    /\ try_request_some(path)

\* Both "if let" of on_asset_dropped succeed.
AssetResolves(path) ==
    /\ make_relative_path_ok(path)
    /\ try_request_some(path)
    /\ load_ok(path)

\* The body of on_asset_dropped without take_reserve_sub_graph: the instance
\* stays in the graph.
DropSubGraphLeftInGraph(size) ==
    LET inst == Instantiate(pool, size)
    IN [g |-> inst.g, root |-> inst.instance,
        nodes |-> SubTree(inst.g, inst.instance, MaxNodes) \ {inst.instance},
        parent |-> ROOT]

\* The pool after the body of on_asset_dropped: the model is instantiated
\* and its sub-graph taken out again (set_scale changes only the transform,
\* which the graph's shape does not hold).
DropSubGraph(size) ==
    LET inst == Instantiate(pool, size)
    IN TakeReserveSubGraph(inst.g, inst.instance)

\* let group = vec![AddModelCommand, LinkNodesCommand, ChangeSelectionCommand]
DropGroup(sub, node) ==
    <<AddModelCommand(sub),
      LinkNodesCommand(sub.root, node),
      ChangeSelectionCommand(SelGraph(single_or_empty(sub.root)), selection)>>

OnAssetDropped(path, node) ==
    /\ fault = "none"
    /\ UNCHANGED <<selection, undo_stack, history_limit, fault>>
    /\ UNCHANGED <<read_vars, range_vars>>
    /\ IF AssetResolves(path)
       THEN \E size \in 1..MaxModelSize :
              /\ Cardinality(VacantIndices(pool)) >= size
              /\ Len(queue) < MaxQueue
              /\ LET sub == DropSubGraph(size)
                 IN /\ pool' = sub.g
                    /\ queue' = Append(queue, CommandGroup(DropGroup(sub, node)))
              /\ last' = Note("drop", "submitted")
       ELSE /\ UNCHANGED <<pool, queue>>
            /\ last' = Note("drop", "failed")

\* -------------------------------------------------- on_selection_changed
\* The loop body with the Selection::Graph arm replacing the selection.
ToggleAlwaysSingle(sel, h) == SelGraph(single_or_empty(h))

\* One turn of the loop body: the match on new_selection.
Toggle(sel, h) ==
    IF sel.tag = "None" THEN SelGraph(single_or_empty(h))
    ELSE IF sel.tag = "Graph" THEN SelGraph(insert_or_exclude(sel.nodes, h))
    ELSE sel

RECURSIVE FoldToggle(_, _)
FoldToggle(sel, items) ==
    IF items = <<>> THEN sel
    ELSE FoldToggle(Toggle(sel, Head(items)), Tail(items))

\* The fold started from an empty graph selection instead of Selection::None.
BuildSelectionFromEmptyGraph(items) == FoldToggle(SelGraph(<<>>), items)

\* let mut new_selection = Selection::None; for &selected_item in selection {..}
BuildSelection(items) == FoldToggle(SelNone, items)

\* The command sent without comparing the selections.
SubmitSelectionAlways(new_selection) ==
    <<SingleIntent(ChangeSelectionCommand(new_selection, selection))>>

\* if &new_selection != self.selection { do_scene_command(ChangeSelectionCommand) }
SubmitSelection(new_selection) ==
    IF ~SelEq(new_selection, selection)
    THEN <<SingleIntent(ChangeSelectionCommand(new_selection, selection))>>
    ELSE <<>>

OnSelectionChanged(items) ==
    /\ fault = "none"
    /\ UNCHANGED <<pool, selection, undo_stack, history_limit, fault>>
    /\ UNCHANGED <<read_vars, range_vars>>
    /\ LET sent == SubmitSelection(BuildSelection(items))
       IN /\ Len(queue) + Len(sent) <= MaxQueue
          /\ queue' = queue \o sent
          /\ last' = Note("select", IF sent = <<>> THEN "same" ELSE "submitted")

\* ------------------------------------------------------- the range editor
\* The widgets' handles: the editor and its two numeric fields, which are
\* its descendants, so that a message addressed to a field is routed to the
\* field first and then to the editor.
EDITOR == "editor"

START == "start"

END == "end"

\* The numbers a field or a range can hold.
Vals == 0..MaxVal

Ranges == [start : Vals, end : Vals]

SYNC_FLAG == 1

\* RangeEditorMessage::value(destination, direction, value)
RangeEditorMessage_value(destination, direction, range) ==
    [kind |-> "Range", destination |-> destination, direction |-> direction,
     flags |-> 0, num |-> 0, range |-> range]

\* NumericUpDownMessage::value(destination, direction, value)
NumericUpDownMessage_value(destination, direction, num) ==
    [kind |-> "Numeric", destination |-> destination, direction |-> direction,
     flags |-> 0, num |-> num, range |-> [start |-> 0, end |-> 0]]

\* UiMessage::reverse: the same message travelling the other way.
reverse(message) ==
    [message EXCEPT !.direction =
        IF @ = "ToWidget" THEN "FromWidget" ELSE "ToWidget"]

Handled(v, out) == [value |-> v, out |-> out]

\* The start-field branch with "<=" for "<".
start_edit_allowing_equal(message, v) ==
    IF message.num <= v.end
    THEN <<RangeEditorMessage_value(EDITOR, "ToWidget",
                [start |-> message.num, end |-> v.end])>>
    ELSE <<[NumericUpDownMessage_value(START, "ToWidget", v.end)
               EXCEPT !.flags = SYNC_FLAG]>>

\* if message.destination() == self.start: what is sent for a new value of
\* the start field.
start_edit(message, v) ==
    IF message.num < v.end
    THEN <<RangeEditorMessage_value(EDITOR, "ToWidget",
                [start |-> message.num, end |-> v.end])>>
    ELSE <<[NumericUpDownMessage_value(START, "ToWidget", v.end)
               EXCEPT !.flags = SYNC_FLAG]>>

\* else if message.destination() == self.end: the same for the end field.
end_edit(message, v) ==
    IF message.num > v.start
    THEN <<RangeEditorMessage_value(EDITOR, "ToWidget",
                [start |-> v.start, end |-> message.num])>>
    ELSE <<[NumericUpDownMessage_value(END, "ToWidget", v.start)
               EXCEPT !.flags = SYNC_FLAG]>>

\* The RangeEditorMessage branch applied to any message of that kind,
\* whatever its destination.
range_message_any_destination(message, v) ==
    IF v # message.range
    THEN Handled(message.range,
                 <<NumericUpDownMessage_value(START, "ToWidget", message.range.start),
                   NumericUpDownMessage_value(END, "ToWidget", message.range.end),
                   reverse(message)>>)
    ELSE Handled(v, <<>>)

\* if message.destination() == self.handle && self.value != *range { .. }
range_message(message, v) ==
    IF message.destination = EDITOR /\ v # message.range
    THEN Handled(message.range,
                 <<NumericUpDownMessage_value(START, "ToWidget", message.range.start),
                   NumericUpDownMessage_value(END, "ToWidget", message.range.end),
                   reverse(message)>>)
    ELSE Handled(v, <<>>)

\* The handler with the SYNC_FLAG test left out.
handle_routed_message_unflagged(message, v) ==
    IF message.direction = "ToWidget"
    THEN IF message.kind = "Range" THEN range_message(message, v)
         ELSE IF message.destination = START
              THEN Handled(v, start_edit(message, v))
         ELSE IF message.destination = END
              THEN Handled(v, end_edit(message, v))
         ELSE Handled(v, <<>>)
    ELSE Handled(v, <<>>)

\* RangeEditor::handle_routed_message on an editor whose value is v: the new
\* value and the messages sent, in the order they are sent.
handle_routed_message(message, v) ==
    IF message.direction = "ToWidget" /\ message.flags # SYNC_FLAG
    THEN IF message.kind = "Range" THEN range_message(message, v)
         ELSE IF message.destination = START
              THEN Handled(v, start_edit(message, v))
         ELSE IF message.destination = END
              THEN Handled(v, end_edit(message, v))
         ELSE Handled(v, <<>>)
    ELSE Handled(v, <<>>)

\* A numeric field takes the value of a value message addressed to it.
field_value(field, shown, message) ==
    IF /\ message.kind = "Numeric"
       /\ message.direction = "ToWidget"
       /\ message.destination = field
    THEN message.num
    ELSE shown

\* The user interface takes the oldest message: its destination handles it,
\* then the destination's ancestors; what they send joins the queue's end.
Dispatch ==
    /\ ui_queue # <<>>
    /\ LET message == Head(ui_queue)
           handled == handle_routed_message(message, value)
       IN /\ Len(ui_queue) - 1 + Len(handled.out) <= MaxUiQueue
          /\ start_field' = field_value(START, start_field, message)
          /\ end_field' = field_value(END, end_field, message)
          /\ value' = handled.value
          /\ ui_queue' = Tail(ui_queue) \o handled.out
    /\ UNCHANGED <<sent_count, scene_vars, read_vars>>

\* Application code sends the editor, or one of its fields, a range message.
SendRange(destination, direction, range) ==
    /\ sent_count < MaxSent
    /\ Len(ui_queue) < MaxUiQueue
    /\ ui_queue' = Append(ui_queue,
                          RangeEditorMessage_value(destination, direction, range))
    /\ sent_count' = sent_count + 1
    /\ UNCHANGED <<value, start_field, end_field, scene_vars, read_vars>>

\* The user enters a number in a field: the field is sent its new value.
EditField(field, num) ==
    /\ sent_count < MaxSent
    /\ Len(ui_queue) < MaxUiQueue
    /\ ui_queue' = Append(ui_queue,
                          NumericUpDownMessage_value(field, "ToWidget", num))
    /\ sent_count' = sent_count + 1
    /\ UNCHANGED <<value, start_field, end_field, scene_vars, read_vars>>

\* ------------------------------------------------------ the command layer
\* The user asks to undo: the request travels in the same queue.
RequestUndo ==
    /\ fault = "none"
    /\ Len(queue) < MaxQueue
    /\ queue' = Append(queue, UndoIntent)
    /\ last' = Note("undo", "submitted")
    /\ UNCHANGED <<pool, selection, undo_stack, history_limit, fault>>
    /\ UNCHANGED <<read_vars, range_vars>>

IntentTag(it) ==
    IF it.type = "Single" THEN "selection"
    ELSE IF it.cmds[1].k = "AddModel" THEN "drop_group"
    ELSE "link_group"

\* The executor takes the oldest intent and applies all of it.
ExecuteIntent ==
    /\ fault = "none"
    /\ queue # <<>>
    /\ Head(queue).type # "Undo"
    /\ queue' = Tail(queue)
    /\ UNCHANGED history_limit
    /\ UNCHANGED <<read_vars, range_vars>>
    /\ LET it == Head(queue)
           st == ExecAll(it.cmds, SceneState(pool, selection))
       IN IF st.ok
          THEN /\ pool' = st.g
               /\ selection' = st.sel
               /\ undo_stack' = PushUndo(undo_stack,
                      [tag |-> IntentTag(it), cmds |-> st.done,
                       pre |-> [g |-> pool, sel |-> selection]])
               /\ fault' = fault
               /\ last' = Note("exec", IntentTag(it))
          ELSE /\ fault' = "panic"
               /\ UNCHANGED <<pool, selection, undo_stack>>
               /\ last' = Note("exec", "panic")

\* The executor takes an undo request: the most recent entry is reverted.
ExecuteUndo ==
    /\ fault = "none"
    /\ queue # <<>>
    /\ Head(queue).type = "Undo"
    /\ queue' = Tail(queue)
    /\ UNCHANGED history_limit
    /\ UNCHANGED <<read_vars, range_vars>>
    /\ IF undo_stack = <<>>
       THEN /\ UNCHANGED <<pool, selection, undo_stack, fault>>
            /\ last' = Note("exec", "undo_nothing")
       ELSE LET e == undo_stack[Len(undo_stack)]
                st == RevertAll(e.cmds, SceneState(pool, selection))
            IN IF st.ok
               THEN /\ pool' = st.g
                    /\ selection' = st.sel
                    /\ undo_stack' = SubSeq(undo_stack, 1, Len(undo_stack) - 1)
                    /\ fault' = fault
                    /\ last' = Note("exec", "undo")
               ELSE /\ fault' = "panic"
                    /\ UNCHANGED <<pool, selection, undo_stack>>
                    /\ last' = Note("exec", "panic")

\* ------------------------------------------------------------------ system
\* The handles a caller can have got hold of: the null handle, the handle of
\* every record spawned so far, current or stale, and an index past the pool.
HeldHandles ==
    {h \in Handles : h = NONE \/ h[1] \notin Indices \/ h[2] <= pool[h[1]].gen}

\* The handles the tree view can hold an item for: the nodes below the root
\* that were spawned, whether live or taken out of the graph.
ItemHandles ==
    {h \in Handles : h[1] \in Indices /\ h # ROOT /\ h[2] = pool[h[1]].gen}

RECURSIVE SeqsUpTo(_, _)
SeqsUpTo(S, n) ==
    IF n = 0 THEN {<<>>}
    ELSE LET shorter == SeqsUpTo(S, n - 1)
         IN shorter \cup {Append(s, x) : s \in shorter, x \in S}

\* The scene at start: a root with one node below it, whose record was used
\* before (generation 2); the other records are vacant.
InitPool ==
    [i \in Indices |->
       IF i = 1 THEN [state |-> "live", gen |-> 1, parent |-> NONE,
                      children |-> <<(<<2, 2>>)>>, resource |-> FALSE]
       ELSE IF i = 2 THEN [state |-> "live", gen |-> 2, parent |-> ROOT,
                           children |-> <<>>, resource |-> FALSE]
       ELSE VacantRecord]

InitScene ==
    /\ pool = InitPool
    /\ selection \in {SelNone, SelOther}
    /\ queue = <<>>
    /\ undo_stack = <<>>
    /\ fault = "none"
    /\ last = Note("init", "init")

\* A scene of generic nodes of which no icon or validation is asked.
PlainNodes ==
    /\ caps = [i \in Indices |-> {}]
    /\ answer = NoAnswer

\* A range editor showing 0..1 that nobody touches.
IdleRange ==
    /\ value = [start |-> 0, end |-> 1]
    /\ start_field = 0
    /\ end_field = 1
    /\ ui_queue = <<>>
    /\ sent_count = 0

\* An editing session in which the user never asks to undo: what the command
\* layer retains for reversal is never read, and is left out.
Init ==
    /\ InitScene
    /\ history_limit = 0
    /\ PlainNodes
    /\ IdleRange

Next ==
    \/ \E child \in HeldHandles, parent \in HeldHandles :
          OnChangeHierarchyRequest(child, parent)
    \/ \E path \in Paths, node \in HeldHandles : OnAssetDropped(path, node)
    \/ \E items \in SeqsUpTo(ItemHandles, MaxSelLen) : OnSelectionChanged(items)
    \/ ExecuteIntent

Spec == Init /\ [][Next]_vars

\* A session in which the world viewer asks for icons and validation while
\* assets are dropped on the root; the scene's node is of any kind.
InitRead ==
    /\ InitScene
    /\ history_limit = 0
    /\ \E c \in SUBSET Caps : caps = [i \in Indices |-> IF i = 2 THEN c ELSE {}]
    /\ answer = NoAnswer
    /\ IdleRange

NextRead ==
    \/ \E h \in HeldHandles : IconOf(h)
    \/ Validate
    \/ \E path \in Paths : OnAssetDropped(path, ROOT)
    \/ ExecuteIntent

SpecRead == InitRead /\ [][NextRead]_vars

\* A range editor as RangeEditorBuilder::build leaves it: any value (the
\* builder's default is 0..0), each field showing its end of it.
InitRange ==
    /\ pool = InitPool
    /\ selection = SelNone
    /\ queue = <<>>
    /\ undo_stack = <<>>
    /\ history_limit = 0
    /\ fault = "none"
    /\ last = Note("init", "init")
    /\ PlainNodes
    /\ value \in Ranges
    /\ start_field = value.start
    /\ end_field = value.end
    /\ ui_queue = <<>>
    /\ sent_count = 0

NextRange ==
    \/ \E destination \in {EDITOR, START}, direction \in {"ToWidget", "FromWidget"},
          range \in Ranges : SendRange(destination, direction, range)
    \/ \E field \in {START, END}, num \in Vals : EditField(field, num)
    \/ Dispatch

SpecRange == InitRange /\ [][NextRange]_vars

\* The same editor when its initial value and every range sent to it from
\* outside have their start below their end.
OrderedRanges == {r \in Ranges : r.start < r.end}

InitRangeOrdered ==
    /\ InitRange
    /\ value \in OrderedRanges

NextRangeOrdered ==
    \/ \E destination \in {EDITOR, START}, direction \in {"ToWidget", "FromWidget"},
          range \in OrderedRanges : SendRange(destination, direction, range)
    \/ \E field \in {START, END}, num \in Vals : EditField(field, num)
    \/ Dispatch

SpecRangeOrdered == InitRangeOrdered /\ [][NextRangeOrdered]_vars

\* The user interface keeps taking messages while there are any.
SpecRangeFair == SpecRange /\ WF_vars(Dispatch)

\* An editing session with undo, in which the user drops assets, changes the
\* selection and undoes, and the command layer retains MaxUndo intents.
InitUndo ==
    /\ InitScene
    /\ history_limit = MaxUndo
    /\ PlainNodes
    /\ IdleRange

NextUndo ==
    \/ \E path \in Paths, node \in HeldHandles : OnAssetDropped(path, node)
    \/ \E items \in SeqsUpTo(ItemHandles, MaxSelLen) : OnSelectionChanged(items)
    \/ RequestUndo
    \/ ExecuteIntent
    \/ ExecuteUndo

SpecUndo == InitUndo /\ [][NextUndo]_vars

\* ------------------------------------------------------------------ claims
\* What the claims speak of, stated on the pool without the provider's code.
Dead(h) ==
    \/ h[1] \notin Indices
    \/ pool[h[1]].state # "live"
    \/ pool[h[1]].gen # h[2]

RECURSIVE ReachesUp(_, _, _, _)
\* Following parent links from p in g meets target within fuel steps.
ReachesUp(g, p, target, fuel) ==
    IF p = NONE \/ ~LiveIn(g, p) THEN FALSE
    ELSE IF p = target THEN TRUE
    ELSE IF fuel = 0 THEN FALSE
    ELSE ReachesUp(g, g[p[1]].parent, target, fuel - 1)

\* n is an ancestor of h in the live graph g.
IsAncestorIn(g, n, h) ==
    /\ LiveIn(g, h)
    /\ ReachesUp(g, g[h[1]].parent, n, MaxNodes)

NoSelfAncestor(g) == \A h \in LiveHandles(g) : ~IsAncestorIn(g, h, h)

ParentListsChild(g) ==
    \A h \in LiveHandles(g) :
        g[h[1]].parent # NONE =>
            /\ LiveIn(g, g[h[1]].parent)
            /\ SeqContains(g[g[h[1]].parent[1]].children, h)

ChildSelected(child) ==
    /\ selection.tag = "Graph"
    /\ child \in SeqToSet(selection.nodes)

\* The live nodes with their parent and child links.
LiveView(g) ==
    [h \in LiveHandles(g) |->
        [parent |-> g[h[1]].parent, children |-> g[h[1]].children]]

\* C1: after any requests to reparent whose link groups are applied, no live
\* node is its own ancestor and every live node with a parent is listed among
\* that parent's children.
C1_GraphInvariants ==
    /\ NoSelfAncestor(pool)
    /\ ParentListsChild(pool)

\* The links C2 expects: one for each selected node that is neither the new
\* parent nor one of its ancestors, in the selection's order.
RECURSIVE ExpectedLinks(_, _)
ExpectedLinks(nodes, parent) ==
    IF nodes = <<>> THEN <<>>
    ELSE (IF Head(nodes) # parent /\ ~IsAncestorIn(pool, Head(nodes), parent)
          THEN <<LinkNodesCommand(Head(nodes), parent)>>
          ELSE <<>>) \o ExpectedLinks(Tail(nodes), parent)

\* C2: a reparent request whose child is selected submits exactly one group
\* holding a link (n -> new_parent) for exactly the selected nodes n that are
\* neither new_parent nor an ancestor of it, and nothing when there is none.
C2_BatchContent ==
    [][last'.op = "reparent" => \A child \in Handles, parent \in Handles :
          (ChildSelected(child) /\ OnChangeHierarchyRequest(child, parent))
             => queue' =
                  IF ExpectedLinks(selection.nodes, parent) # <<>>
                  THEN Append(queue,
                         CommandGroup(ExpectedLinks(selection.nodes, parent)))
                  ELSE queue]_vars

\* C3: a reparent request whose child is not in the active graph selection
\* (no selection and other selection kinds included) submits nothing and
\* changes neither the graph nor the selection.
C3_ReparentGate ==
    [][(/\ last'.op = "reparent"
        /\ ~UNCHANGED <<pool, selection, queue, undo_stack, fault>>)
          => \A child \in Handles, parent \in Handles :
                ~ChildSelected(child) => ~OnChangeHierarchyRequest(child, parent)]_vars

\* A request was refused at the gate although other nodes are selected.
C3_Witness ==
    /\ last = Note("reparent", "gated")
    /\ selection.tag = "Graph"
    /\ selection.nodes # <<>>

StructurallyDiffer(a, b) ==
    \/ a.tag # b.tag
    \/ SeqToSet(a.nodes) # SeqToSet(b.nodes)

NoDuplicates(items) ==
    \A i \in 1..Len(items), j \in 1..Len(items) : items[i] = items[j] => i = j

SelectionLists == SeqsUpTo(ItemHandles, MaxSelLen)

\* What on_selection_changed(items) is to submit: one selection-change command
\* with the built selection as new and the active one as old, when they differ.
ExpectedSelectionIntent(items) ==
    IF StructurallyDiffer(BuildSelection(items), selection)
    THEN <<SingleIntent(ChangeSelectionCommand(BuildSelection(items), selection))>>
    ELSE <<>>

\* C4 as stated: on_selection_changed submits exactly one selection-change
\* command (new: the built selection, old: the active one) if and only if the
\* two differ structurally, and a call with the same set of handles as the
\* active graph selection submits nothing.
C4_AsStated ==
    [][last'.op = "select" => \A items \in SelectionLists :
          OnSelectionChanged(items) =>
             /\ queue' = queue \o ExpectedSelectionIntent(items)
             /\ (selection.tag = "Graph"
                 /\ SeqToSet(items) = SeqToSet(selection.nodes))
                   => queue' = queue]_vars

\* C4 amended: the same, where the call that submits nothing is one whose
\* list is not empty and names every handle of the active graph selection
\* exactly once.
C4_SelectionChange ==
    [][last'.op = "select" => \A items \in SelectionLists :
          OnSelectionChanged(items) =>
             /\ queue' = queue \o ExpectedSelectionIntent(items)
             /\ (selection.tag = "Graph"
                 /\ items # <<>>
                 /\ NoDuplicates(items)
                 /\ SeqToSet(items) = SeqToSet(selection.nodes))
                   => queue' = queue]_vars

\* With two nodes selected a call was made that submitted nothing.
C4_Witness ==
    /\ last = Note("select", "same")
    /\ selection.tag = "Graph"
    /\ Len(selection.nodes) = 2

\* The selection values the session holds: the active one, those the queued
\* commands carry, and None.
HeldSelections ==
    {SelNone, selection}
      \cup UNION {UNION {{queue[i].cmds[j].new, queue[i].cmds[j].old} :
                            j \in 1..Len(queue[i].cmds)} : i \in 1..Len(queue)}

\* C5 as stated: toggling a handle twice gives back a selection structurally
\* equal to the one started from, None included.
C5_AsStated ==
    \A S \in HeldSelections, h \in Handles :
        S.tag \in {"None", "Graph"} => SelEq(Toggle(Toggle(S, h), h), S)

\* C5 amended: toggling a handle twice on a graph selection gives back a
\* structurally equal selection; on None it gives the empty graph selection,
\* which is not None.
C5_ToggleTwice ==
    \A S \in HeldSelections, h \in Handles :
        /\ S.tag = "Graph" => SelEq(Toggle(Toggle(S, h), h), S)
        /\ S.tag = "None" =>
              /\ Toggle(Toggle(S, h), h) = SelGraph(<<>>)
              /\ ~SelEq(Toggle(Toggle(S, h), h), S)

\* A call on_selection_changed([h, h]) has toggled h twice from None: the
\* command it sent carries the empty graph selection.
C5_Witness ==
    /\ last = Note("select", "submitted")
    /\ queue # <<>>
    /\ queue[Len(queue)].cmds[1].new = SelGraph(<<>>)

IsDropGroup(it) ==
    /\ it.type = "Group"
    /\ it.cmds[1].k = "AddModel"

\* The group on_asset_dropped is to submit for an instance and a target: add
\* the sub-graph, link the instance under the target, select the instance
\* alone with the active selection as old.
IsExpectedDropGroup(it, node) ==
    /\ it.type = "Group"
    /\ Len(it.cmds) = 3
    /\ it.cmds[1].k = "AddModel"
    /\ it.cmds[2] = LinkNodesCommand(it.cmds[1].child, node)
    /\ it.cmds[3] = ChangeSelectionCommand(SelGraph(<<it.cmds[1].child>>),
                                           selection)

\* C6: a drop of a resolvable asset submits exactly one group of three
\* commands (add, link under the target, select the instance with the
\* previous selection as old); applying it, with the target live, adds exactly
\* the new sub-tree with its root below the target and selects the root
\* alone; reverting it gives back the graph and the selection there were
\* before it was applied.
C6_AssetDrop ==
    [][/\ (last'.op = "drop" /\ last'.tag = "submitted") =>
             /\ Len(queue') = Len(queue) + 1
             /\ SubSeq(queue', 1, Len(queue)) = queue
             /\ \E node \in Handles :
                   IsExpectedDropGroup(queue'[Len(queue')], node)
       /\ (/\ last'.op = "exec"
           /\ queue # <<>>
           /\ IsDropGroup(Head(queue))
           /\ LiveIn(pool, Head(queue).cmds[2].parent)) =>
             LET c == Head(queue).cmds
             IN /\ fault' = "none"
                /\ LiveHandles(pool') =
                      LiveHandles(pool) \cup {c[1].child} \cup c[1].nodes
                /\ pool'[c[1].child[1]].parent = c[2].parent
                /\ selection' = SelGraph(<<c[1].child>>)
       /\ (/\ last'.op = "exec"
           /\ last'.tag = "undo"
           /\ undo_stack # <<>>
           /\ undo_stack[Len(undo_stack)].tag = "drop_group") =>
             LET e == undo_stack[Len(undo_stack)]
             IN /\ LiveView(pool') = LiveView(e.pre.g)
                /\ selection' = e.pre.sel]_vars

\* C7: a drop whose path does not resolve (normalization fails, the resource
\* is no model, or the load ends in an error) submits nothing and changes
\* neither the graph nor the selection.
C7_FailedDrop ==
    [][(/\ last'.op = "drop"
        /\ ~UNCHANGED <<pool, selection, queue, undo_stack, fault>>)
          => \A path \in Paths \ {"model"}, node \in Handles :
                ~OnAssetDropped(path, node)]_vars

\* A drop failed while an earlier intent was still waiting.
C7_Witness ==
    /\ last = Note("drop", "failed")
    /\ queue # <<>>

\* The handles of the instances whose add-sub-graph command is still queued.
PendingInstanceNodes ==
    UNION {{queue[i].cmds[1].child} \cup queue[i].cmds[1].nodes :
              i \in {j \in 1..Len(queue) : IsDropGroup(queue[j])}}

\* C8: no request changes the live nodes, their links or the selection by
\* itself, and no node of an instance is live or linked from a live node
\* while its add-sub-graph command waits.
C8_RequestsDoNotMutate ==
    /\ [][last'.op \in {"reparent", "drop", "select"} =>
             /\ LiveView(pool') = LiveView(pool)
             /\ selection' = selection]_vars
    /\ [](\A h \in PendingInstanceNodes :
             /\ ~LiveIn(pool, h)
             /\ \A n \in LiveHandles(pool) :
                   /\ pool[n[1]].parent # h
                   /\ ~SeqContains(pool[n[1]].children, h))

\* A drop has been requested and its group waits: the instance is known to
\* the pool and not live.
C8_Witness ==
    /\ last = Note("drop", "submitted")
    /\ PendingInstanceNodes # {}
    /\ \A h \in PendingInstanceNodes : pool[h[1]].state = "reserved"

\* Position of x in s (0 when absent).
IndexOf(s, x) ==
    IF SeqContains(s, x) THEN CHOOSE i \in 1..Len(s) : s[i] = x ELSE 0

\* The trace an intent leaves when its members were applied in their listed
\* order: each linked child has the parent its link names, children linked
\* under one parent stand in that parent's child list in the order of their
\* links, and the selection is the one the intent's selection change names.
AppliedInOrder(it, g, sel) ==
    /\ \A i \in 1..Len(it.cmds) :
          it.cmds[i].k = "Link" =>
              g[it.cmds[i].child[1]].parent = it.cmds[i].parent
    /\ \A i \in 1..Len(it.cmds), j \in 1..Len(it.cmds) :
          (/\ i < j
           /\ it.cmds[i].k = "Link"
           /\ it.cmds[j].k = "Link"
           /\ it.cmds[i].parent = it.cmds[j].parent) =>
              IndexOf(g[it.cmds[i].parent[1]].children, it.cmds[i].child)
                < IndexOf(g[it.cmds[j].parent[1]].children, it.cmds[j].child)
    /\ \A i \in 1..Len(it.cmds) :
          it.cmds[i].k = "ChangeSelection" => sel = it.cmds[i].new

\* C9: the queue changes only by one whole intent joining its end or by its
\* oldest intent leaving it; the intent that leaves has been applied whole
\* and in its listed order, and no member of a later intent with it.
C9_InOrderAtomic ==
    [][queue' # queue =>
         \/ /\ Len(queue') = Len(queue) + 1
            /\ SubSeq(queue', 1, Len(queue)) = queue
            /\ LiveView(pool') = LiveView(pool)
            /\ selection' = selection
         \/ /\ queue # <<>>
            /\ queue' = Tail(queue)
            /\ fault' = "none" => AppliedInOrder(Head(queue), pool', selection')]_vars

\* A group of two links has been applied while a later intent waits.
C9_Witness ==
    /\ last = Note("exec", "link_group")
    /\ queue # <<>>
    /\ selection.tag = "Graph"
    /\ Len(selection.nodes) = 2
    /\ \A i \in 1..2 : parent_of(selection.nodes[i]) = ROOT
    /\ children_of(ROOT) = <<selection.nodes[1], selection.nodes[2]>>
    /\ selection.nodes[1] = <<3, 1>>

\* C10: on a handle that is not live (null, out of range, stale, taken out)
\* every read query gives its neutral value.
C10_DeadHandleReads ==
    \A h \in Handles :
        Dead(h) =>
            /\ children_of(h) = <<>>
            /\ child_count_of(h) = 0
            /\ \A c \in Handles : ~is_node_has_child(h, c)
            /\ parent_of(h) = NONE
            /\ name_of(h) = None
            /\ ~is_valid_handle(h)
            /\ ~is_instance(h)

\* The stale handle of the second record is dead while the record's node is
\* live, has a child and a parent.
C10_Witness ==
    /\ Dead(<<2, 1>>)
    /\ children_of(<<2, 2>>) # <<>>
    /\ parent_of(<<2, 2>>) = ROOT

\* C11: icon_of on a handle that is not live ends without a panic and gives
\* the caller an answer (a neutral icon), as the other read queries do.
C11_IconOfTotal ==
    [][last'.op = "icon_of" => \A h \in Handles :
          (Dead(h) /\ IconOf(h)) =>
              /\ fault' = "none"
              /\ answer'.query = "icon_of"
              /\ answer'.handle = h]_vars

\* C12: a reparent request ends without a panic and without hanging, whatever
\* the handles: it is a no-op or it has submitted a group.
C12_ReparentNeverPanics ==
    [][last'.op = "reparent" => \A child \in Handles, parent \in Handles :
          (ChildSelected(child) /\ OnChangeHierarchyRequest(child, parent)) =>
              /\ fault' = "none"
              /\ \/ queue' = queue
                 \/ /\ Len(queue') = Len(queue) + 1
                    /\ queue'[Len(queue')].type = "Group"]_vars

\* C13: validate gives exactly one entry for every live node, none for a
\* handle that is not live, and changes neither the graph nor the selection.
C13_ValidateEveryLiveNode ==
    [][last'.op = "validate" =>
          /\ answer'.query = "validate"
          /\ {answer'.entries[i][1] : i \in 1..Len(answer'.entries)}
                = LiveHandles(pool)
          /\ Len(answer'.entries) = Cardinality(LiveHandles(pool))
          /\ \A i \in 1..Len(answer'.entries) :
                answer'.entries[i][2] \in {"Ok", "Err"}
          /\ pool' = pool
          /\ selection' = selection]_vars

\* A validation was answered while a dropped instance was out of the graph:
\* its record is known to the pool and has no entry.
C13_Witness ==
    /\ last = Note("validate", "answered")
    /\ \E i \in Indices : pool[i].state = "reserved"
    /\ Len(answer.entries) = 2

\* The icon classes in their order of precedence.
IconClasses ==
    <<[icon |-> "light.png",
       preds |-> {"point_light", "directional_light", "spot_light"}],
      [icon |-> "joint.png", preds |-> {"joint", "joint2d"}],
      [icon |-> "rigid_body.png", preds |-> {"rigid_body", "rigid_body2d"}],
      [icon |-> "collider.png", preds |-> {"collider", "collider2d"}],
      [icon |-> "sound_source.png", preds |-> {"sound"}]>>

\* The icon of the first class one of whose predicates holds, else the
\* generic one.
FirstMatchingIcon(c) ==
    LET matching == {k \in 1..Len(IconClasses) : IconClasses[k].preds \cap c # {}}
    IN IF matching = {} THEN "cube.png"
       ELSE IconClasses[CHOOSE k \in matching : \A j \in matching : k <= j].icon

\* C14: the icon answered for a live node is that of the first class, in the
\* order light, joint, rigid body, collider, sound, one of whose predicates
\* the node satisfies, and the generic icon when there is none.
C14_IconPrecedence ==
    answer.query = "icon_of" =>
        answer.icon = Some(FirstMatchingIcon(caps[answer.handle[1]]))

\* The icon of a node that is both a light and a joint was asked: it is the
\* light's.
C14_Witness ==
    /\ last = Note("icon_of", "answered")
    /\ {"spot_light", "joint2d"} \subseteq caps[answer.handle[1]]
    /\ answer.icon = Some("light.png")

\* The handles that occur an odd number of times in items.
OddHandles(items) ==
    {h \in SeqToSet(items) :
        Cardinality({i \in 1..Len(items) : items[i] = h}) % 2 = 1}

\* The selection C15 has the fold build.
IsFoldOf(b, items) ==
    IF items = <<>> THEN b = SelNone
    ELSE /\ b.tag = "Graph"
         /\ SeqToSet(b.nodes) = OddHandles(items)
         /\ NoDuplicates(b.nodes)

\* C15: the selection on_selection_changed builds is None for the empty list
\* and, for any other list, the graph selection of exactly the handles that
\* occur an odd number of times in it; the command it submits carries that
\* selection.
C15_FoldToggle ==
    /\ [](\A items \in SeqsUpTo(ItemHandles, MaxFoldLen) :
             IsFoldOf(BuildSelection(items), items))
    /\ [][last'.op = "select" => \A items \in SelectionLists :
             (OnSelectionChanged(items) /\ queue' # queue) =>
                 IsFoldOf(queue'[Len(queue')].cmds[1].new, items)]_vars

\* With one node selected, a list of two different handles was passed and the
\* command sent selects both.
C15_Witness ==
    /\ last = Note("select", "submitted")
    /\ selection.tag = "Graph"
    /\ Len(selection.nodes) = 1
    /\ queue # <<>>
    /\ queue[Len(queue)].cmds[1].new.tag = "Graph"
    /\ Len(queue[Len(queue)].cmds[1].new.nodes) = 2

\* The bound on the queue's length, not the editor, keeps the oldest message
\* from being taken.
QueueBoundReached ==
    /\ ui_queue # <<>>
    /\ Len(ui_queue) - 1 + Len(handle_routed_message(Head(ui_queue), value).out)
          > MaxUiQueue

\* C16: after the messages sent from outside, the editor eventually stops
\* sending and the queue is empty for good (unless the bound on the queue's
\* length has stopped the dispatch).
C16_CascadesTerminate == <>[](ui_queue = <<>> \/ QueueBoundReached)

\* C17: whenever no message is pending, the start field shows the stored
\* value's start and the end field its end.
C17_FieldsShowValue ==
    ui_queue = <<>> =>
        /\ start_field = value.start
        /\ end_field = value.end

\* C18: with an ordered initial value and ordered ranges sent from outside,
\* the stored value always has its start below its end, and so has every
\* range a field edit makes the editor send itself.
C18_StartBelowEnd ==
    /\ value.start < value.end
    /\ \A i \in 1..Len(ui_queue) :
          ui_queue[i].kind = "Range" =>
              ui_queue[i].range.start < ui_queue[i].range.end

\* Edits of both fields were pending together and the value has changed.
C18_Witness ==
    /\ value = [start |-> 1, end |-> 2]
    /\ start_field = 1
    /\ end_field = 1
    /\ \E i \in 1..Len(ui_queue) :
          /\ ui_queue[i].kind = "Range"
          /\ ui_queue[i].direction = "ToWidget"
          /\ ui_queue[i].range # value

\* The message a rejected edit of a field is answered with.
SyncMessage(field, num) ==
    [kind |-> "Numeric", destination |-> field, direction |-> "ToWidget",
     flags |-> SYNC_FLAG, num |-> num, range |-> [start |-> 0, end |-> 0]]

\* C19: taking a value message for the start field whose number is not below
\* the stored end (for the end field: not above the stored start) leaves the
\* stored value alone and sends exactly one message, a SYNC_FLAG value
\* message to that field with the stored end (the stored start); taking a
\* SYNC_FLAG message changes nothing and sends nothing.
C19_RejectedEdit ==
    [][(sent_count' = sent_count /\ ui_queue # <<>>) =>
         LET m == Head(ui_queue)
         IN /\ (/\ m.kind = "Numeric"
                 /\ m.direction = "ToWidget"
                 /\ m.flags # SYNC_FLAG
                 /\ m.destination = START
                 /\ m.num >= value.end) =>
                   /\ value' = value
                   /\ ui_queue' = Append(Tail(ui_queue),
                                         SyncMessage(START, value.end))
            /\ (/\ m.kind = "Numeric"
                 /\ m.direction = "ToWidget"
                 /\ m.flags # SYNC_FLAG
                 /\ m.destination = END
                 /\ m.num <= value.start) =>
                   /\ value' = value
                   /\ ui_queue' = Append(Tail(ui_queue),
                                         SyncMessage(END, value.start))
            /\ m.flags = SYNC_FLAG =>
                   /\ value' = value
                   /\ ui_queue' = Tail(ui_queue)]_vars

\* A rejected edit of the start field has been answered and the answer taken:
\* the queue is empty again and the value is the one there was.
C19_Witness ==
    /\ ui_queue = <<>>
    /\ sent_count = 1
    /\ value.start < value.end
    /\ start_field = value.end

\* C20: the stored value changes only by taking a ToWidget range message
\* addressed to the editor whose range differs from it; the change sends a
\* value message to the start field, one to the end field and the message
\* reversed, in this order; a range message equal to the stored value,
\* addressed elsewhere or travelling FromWidget changes and sends nothing.
C20_ChangeNotification ==
    [][(sent_count' = sent_count /\ ui_queue # <<>>) =>
         LET m == Head(ui_queue)
         IN /\ value' # value =>
                   /\ m.kind = "Range"
                   /\ m.direction = "ToWidget"
                   /\ m.destination = EDITOR
                   /\ m.range # value
                   /\ value' = m.range
                   /\ ui_queue' = Tail(ui_queue) \o
                        <<[kind |-> "Numeric", destination |-> START,
                           direction |-> "ToWidget", flags |-> 0,
                           num |-> m.range.start,
                           range |-> [start |-> 0, end |-> 0]],
                          [kind |-> "Numeric", destination |-> END,
                           direction |-> "ToWidget", flags |-> 0,
                           num |-> m.range.end,
                           range |-> [start |-> 0, end |-> 0]],
                          [kind |-> "Range", destination |-> EDITOR,
                           direction |-> "FromWidget", flags |-> 0,
                           num |-> 0, range |-> m.range]>>
            /\ (/\ m.kind = "Range"
                 /\ \/ m.range = value
                    \/ m.destination # EDITOR
                    \/ m.direction = "FromWidget") =>
                   /\ value' = value
                   /\ ui_queue' = Tail(ui_queue)]_vars

\* A range message has changed the value and its three messages wait, the
\* fields still showing the old value.
C20_Witness ==
    /\ Len(ui_queue) = 3
    /\ ui_queue[1].kind = "Numeric"
    /\ ui_queue[1].destination = START
    /\ ui_queue[2].kind = "Numeric"
    /\ ui_queue[2].destination = END
    /\ ui_queue[3] = RangeEditorMessage_value(EDITOR, "FromWidget", value)
    /\ start_field # value.start
    /\ end_field # value.end

TypeOK ==
    /\ fault \in {"none", "panic", "hang"}
    /\ Len(queue) <= MaxQueue
    /\ Len(undo_stack) <= MaxUndo

====
